---- MODULE Spec2Model ----
(***************************************************************************)
(* GhostMentor: the context-acquisition and analysis-dispatch pipeline.    *)
(*                                                                         *)
(* Four threads share the module-level globals of ghostmentor.py without   *)
(* any lock:                                                               *)
(*   - the keyboard hook thread runs global_key_handler (one key event at  *)
(*     a time; its position inside a handler is hk),                       *)
(*   - the asyncio thread runs the process_openai coroutines scheduled by  *)
(*     Ctrl+Enter (tasks),                                                 *)
(*   - the main thread runs the pygame loop (update_overlay, the preview   *)
(*     timer),                                                             *)
(*   - the transcription worker thread of AudioManager delivers accepted   *)
(*     transcripts through on_transcript_updated.                          *)
(* A handler is a sequence of steps of its thread; a step boundary is put  *)
(* wherever another thread can observe a shared global between two writes. *)
(***************************************************************************)
EXTENDS Integers, Sequences, FiniteSets, TLC

(***************************************************************************)
(* Bounds of the model.                                                    *)
(***************************************************************************)
\* successful captures of save_screenshot in a run of the adds spec
MaxShots == 7
\* successful captures of save_screenshot in a run of a dispatch spec
MaxShotsD == 1
\* successful captures of save_screenshot in a run of the fallback spec
MaxShotsF == 2
\* Ctrl+Enter commands issued in a run of the overlap spec
MaxAnalyze == 2
\* Ctrl+Enter commands issued in a run of the other dispatch specs
MaxAnalyzeD == 1
\* messages waiting in text_queue when a command that publishes is accepted
MaxQueue == 0
\* Ctrl+V commands issued in a run of the audio spec
MaxToggles == 4
\* audio_settings, scaled down: buffer_frames = sampling_rate * buffer_duration
sampling_rate == 5
chunk_size == 2
buffer_duration == 1
\* chunks read from the stream in a run of the audio spec
MaxReads == 7
MaxAttempts == 7
\* transcription threads alive at once in a run of the manager spec
MaxWorkers == 2
MaxLocked == 2

(***************************************************************************)
(* Program constants.                                                      *)
(***************************************************************************)
max_screenshots == 5

\* current_screenshot = None
None == 0
\* the image of a capture_screen() taken by process_openai itself
FreshImage == -1

(***************************************************************************)
(* Text: a string is a sequence of one-character strings.                  *)
(***************************************************************************)
RECURSIVE LStrip(_)
LStrip(s) == IF s # <<>> /\ Head(s) = " " THEN LStrip(Tail(s)) ELSE s

RECURSIVE RStrip(_)
RStrip(s) == IF s # <<>> /\ s[Len(s)] = " " THEN RStrip(SubSeq(s, 1, Len(s) - 1)) ELSE s

\* str.strip()
Strip(s) == RStrip(LStrip(s))

\* what whisper may return for one window, segments joined with " "
RawTexts == { <<" ", "h", "i", "!", " ">>, <<" ", "o", "k", " ">>, <<" ">> }

VARIABLES
    current_transcript,          \* ghostmentor.current_transcript
    screenshot_collection,       \* list of records (image, filename)
    current_screenshot_index,    \* 0-based cursor
    has_recent_screenshot,
    current_screenshot,          \* image shown in the preview, or None
    screenshot_preview_visible,
    shots,                       \* successful captures so far: the next image is shots + 1
    attempts,                    \* Ctrl+H commands issued so far
    screenshot_files,            \* ghostmentor.screenshot_files: the names of the files created
    disk,                        \* the screenshot files that exist
    undeletable,                 \* the files on which os.remove raises
    hk,                          \* position of the hook thread inside a handler; "exit"
                                 \* once main() has left its loop
    fallback,                    \* keyboard.hook failed: the add_hotkey bindings are in use
    window_hidden,
    tasks,                       \* process_openai coroutines on the asyncio loop, oldest first
    app_state,
    text_queue,
    overlay_text,
    conversation_history,        \* api_manager.conversation_history
    current_code,
    analyzes,                    \* Ctrl+Enter commands issued so far
    use_speech,
    is_recording,                \* AudioManager.is_recording
    recording_active,            \* ghostmentor.recording_active
    workers,                     \* live _transcription_worker threads
    audio_buffer,                \* AudioManager.audio_buffer: the chunks, each the number of its read
    reads,                       \* chunks read from the stream so far
    busy,                        \* workers past the test of their loop, inside an iteration
    batches,                     \* the windows handed to whisper_model.transcribe, oldest first
    toggles                      \* Ctrl+V commands issued so far

ctxVars == <<current_transcript, screenshot_collection, current_screenshot_index,
             has_recent_screenshot>>
prevVars == <<current_screenshot, screenshot_preview_visible>>
hookVars == <<hk, fallback, window_hidden, shots>>
fileVars == <<screenshot_files, disk, undeletable, attempts>>
dispVars == <<tasks, text_queue, overlay_text, conversation_history, current_code, analyzes>>
audVars == <<use_speech, is_recording, recording_active, workers, audio_buffer, reads, busy, batches,
            toggles>>
vars == <<ctxVars, prevVars, hookVars, fileVars, dispVars, audVars, app_state>>

(***************************************************************************)
(* State after the module-level initialisation and main() up to the loop.  *)
(***************************************************************************)
InitCommon ==
    /\ current_transcript = <<>>
    /\ screenshot_collection = <<>>
    /\ current_screenshot_index = 0
    /\ has_recent_screenshot = FALSE
    /\ current_screenshot = None
    /\ screenshot_preview_visible = FALSE
    /\ shots = 0
    /\ attempts = 0
    /\ screenshot_files = <<>>
    /\ disk = {}
    /\ hk = "idle"
    /\ tasks = <<>>
    /\ app_state = "ready"
    /\ text_queue = <<>>
    /\ overlay_text = [kind |-> "Ready...", body |-> <<>>]
    /\ conversation_history = <<>>
    /\ current_code = ""
    /\ analyzes = 0
    /\ is_recording = FALSE
    /\ recording_active = FALSE
    /\ workers = 0
    /\ audio_buffer = <<>>
    /\ reads = 0
    /\ busy = 0
    /\ batches = <<>>
    /\ window_hidden = FALSE
    /\ toggles = 0

\* the hidden-window filter of global_key_handler: the key event reaches its
\* handler; the add_hotkey callbacks have no such filter
Forwarded == fallback \/ ~window_hidden

Images(coll) == [i \in 1..Len(coll) |-> coll[i].img]

\* the backing files of the records
Files(coll) == {coll[i].file : i \in 1..Len(coll)}

\* list.remove(x): the list without the first occurrence of x
RECURSIVE RemoveFirst(_, _)
RemoveFirst(s, x) ==
    IF s = <<>> THEN <<>>
    ELSE IF Head(s) = x THEN Tail(s)
    ELSE <<Head(s)>> \o RemoveFirst(Tail(s), x)

\* the files that exist after os.remove on each existing file of names;
\* a remove that raises is logged and leaves the file
Removed(names) == disk \ (names \ undeletable)

(***************************************************************************)
(* Screenshot preview.                                                     *)
(***************************************************************************)
close_screenshot_preview ==
    IF screenshot_preview_visible
    THEN /\ screenshot_preview_visible' = FALSE
         /\ current_screenshot' = None
    ELSE UNCHANGED prevVars

(***************************************************************************)
(* Ctrl+H: save_screenshot, three steps of the hook thread.                *)
(***************************************************************************)
\* a save_screenshot that would track the file name before it has captured
SaveShotAppendTracksFirst ==
    /\ hk = "idle"
    /\ Forwarded
    /\ \E ok \in BOOLEAN :
         IF ok
         THEN /\ \E same \in BOOLEAN :
                   LET n == Len(screenshot_collection)
                       file == IF same /\ n > 0 THEN screenshot_collection[n].file
                               ELSE shots + 1
                   IN  /\ disk' = disk \cup {file}
                       /\ screenshot_files' = Append(screenshot_files, file)
                       /\ screenshot_collection' =
                              Append(screenshot_collection, [img |-> shots + 1, file |-> file])
              /\ shots' = shots + 1
              /\ hk' = "h_evict"
         ELSE /\ screenshot_files' = Append(screenshot_files, shots + 1)
              /\ UNCHANGED <<screenshot_collection, disk, shots, hk>>
    /\ UNCHANGED <<current_transcript, current_screenshot_index, has_recent_screenshot,
                   prevVars, fallback, window_hidden, undeletable, dispVars, audVars, app_state>>

\* capture_screen and the append
SaveShotAppend ==
    /\ hk = "idle"
    /\ Forwarded
    /\ \E ok \in BOOLEAN :
         IF ok
         THEN /\ \E same \in BOOLEAN :
                   LET n == Len(screenshot_collection)
                       file == IF same /\ n > 0 THEN screenshot_collection[n].file
                               ELSE shots + 1
                   IN  /\ disk' = disk \cup {file}
                       /\ screenshot_files' = Append(screenshot_files, file)
                       /\ screenshot_collection' =
                              Append(screenshot_collection, [img |-> shots + 1, file |-> file])
              /\ shots' = shots + 1
              /\ hk' = "h_evict"
         ELSE UNCHANGED <<screenshot_collection, screenshot_files, disk, shots, hk>>
    /\ UNCHANGED <<current_transcript, current_screenshot_index, has_recent_screenshot,
                   prevVars, fallback, window_hidden, undeletable, dispVars, audVars, app_state>>

\* an eviction that would drop the newest record instead of the oldest
SaveShotEvictNewest ==
    /\ hk = "h_evict"
    /\ screenshot_collection' =
           IF Len(screenshot_collection) > max_screenshots
           THEN SubSeq(screenshot_collection, 1, Len(screenshot_collection) - 1)
           ELSE screenshot_collection
    /\ LET last == screenshot_collection[Len(screenshot_collection)]
       IN  IF Len(screenshot_collection) > max_screenshots
           THEN /\ screenshot_files' = RemoveFirst(screenshot_files, last.file)
                /\ disk' = Removed({last.file})
           ELSE UNCHANGED <<screenshot_files, disk>>
    /\ hk' = "h_finish"
    /\ UNCHANGED <<current_transcript, current_screenshot_index, has_recent_screenshot,
                   prevVars, fallback, window_hidden, undeletable, attempts, shots, dispVars,
                   audVars, app_state>>

\* the eviction of the oldest record
SaveShotEvict ==
    /\ hk = "h_evict"
    /\ screenshot_collection' =
           IF Len(screenshot_collection) > max_screenshots
           THEN Tail(screenshot_collection)
           ELSE screenshot_collection
    /\ IF Len(screenshot_collection) > max_screenshots
       THEN LET old_data == Head(screenshot_collection)
            IN  /\ screenshot_files' = RemoveFirst(screenshot_files, old_data.file)
                /\ disk' = Removed({old_data.file})
       ELSE UNCHANGED <<screenshot_files, disk>>
    /\ hk' = "h_finish"
    /\ UNCHANGED <<current_transcript, current_screenshot_index, has_recent_screenshot,
                   prevVars, fallback, window_hidden, undeletable, attempts, shots, dispVars,
                   audVars, app_state>>

\* cursor, preview image, flag, show_screenshot_preview
SaveShotFinish ==
    /\ hk = "h_finish"
    /\ current_screenshot_index' = Len(screenshot_collection) - 1
    /\ current_screenshot' = shots
    /\ has_recent_screenshot' = TRUE
    /\ screenshot_preview_visible' = TRUE
    /\ hk' = "idle"
    /\ UNCHANGED <<current_transcript, screenshot_collection, fallback, window_hidden, fileVars, shots,
                   dispVars, audVars, app_state>>

(***************************************************************************)
(* Ctrl+X: clear_all_screenshots, two steps of the hook thread.            *)
(***************************************************************************)
\* a clear that would leave the files of the records
ClearShotsKeepsFiles(next) ==
    /\ IF Len(screenshot_collection) = 0
       THEN /\ hk' = next
            /\ UNCHANGED screenshot_collection
       ELSE /\ screenshot_collection' = <<>>
            /\ hk' = IF next = "idle" THEN "x_rest" ELSE "g_rest"
    /\ UNCHANGED <<current_transcript, current_screenshot_index, has_recent_screenshot,
                   prevVars, fallback, window_hidden, fileVars, shots, dispVars, audVars,
                   app_state>>

\* the early return on an empty collection, else the files and collection.clear()
ClearShotsBegin(next) ==
    /\ IF Len(screenshot_collection) = 0
       THEN /\ hk' = next
            /\ UNCHANGED <<screenshot_collection, disk>>
       ELSE /\ disk' = Removed(Files(screenshot_collection))
            /\ screenshot_collection' = <<>>
            /\ hk' = IF next = "idle" THEN "x_rest" ELSE "g_rest"
    /\ UNCHANGED <<current_transcript, current_screenshot_index, has_recent_screenshot,
                   prevVars, fallback, window_hidden, screenshot_files, undeletable, attempts,
                   shots, dispVars, audVars, app_state>>

\* a clear that would leave the cursor where it was
ClearShotsRestKeepsCursor(here, next) ==
    /\ hk = here
    /\ current_screenshot' = None
    /\ has_recent_screenshot' = FALSE
    /\ hk' = next
    /\ UNCHANGED <<current_transcript, screenshot_collection, current_screenshot_index,
                   screenshot_preview_visible, fallback, window_hidden, fileVars, shots,
                   dispVars, audVars, app_state>>

\* current_screenshot, flag and cursor
ClearShotsRest(here, next) ==
    /\ hk = here
    /\ current_screenshot' = None
    /\ has_recent_screenshot' = FALSE
    /\ current_screenshot_index' = 0
    /\ hk' = next
    /\ UNCHANGED <<current_transcript, screenshot_collection, screenshot_preview_visible,
                   fallback, window_hidden, fileVars, shots, dispVars, audVars, app_state>>

KeyClearShots == hk = "idle" /\ ~fallback /\ Forwarded /\ ClearShotsBegin("idle")

KeyClearShotsRest == ClearShotsRest("x_rest", "idle")

(***************************************************************************)
(* Ctrl+N / Ctrl+M: next_screenshot / prev_screenshot.                     *)
(***************************************************************************)
\* a navigation whose two directions would both move forward
BrowseForward(step) ==
    /\ hk = "idle"
    /\ ~fallback
    /\ Forwarded
    /\ IF screenshot_collection = <<>>
       THEN UNCHANGED <<current_screenshot_index, current_screenshot>>
       ELSE LET i == (current_screenshot_index + 1) % Len(screenshot_collection)
            IN  /\ current_screenshot_index' = i
                /\ current_screenshot' = screenshot_collection[i + 1].img
    /\ UNCHANGED <<current_transcript, screenshot_collection, has_recent_screenshot,
                   screenshot_preview_visible, hookVars, fileVars, dispVars, audVars, app_state>>

Browse(step) ==
    /\ hk = "idle"
    /\ ~fallback
    /\ Forwarded
    /\ IF screenshot_collection = <<>>
       THEN UNCHANGED <<current_screenshot_index, current_screenshot>>
       ELSE LET i == (current_screenshot_index + step) % Len(screenshot_collection)
            IN  /\ current_screenshot_index' = i
                /\ current_screenshot' = screenshot_collection[i + 1].img
    /\ UNCHANGED <<current_transcript, screenshot_collection, has_recent_screenshot,
                   screenshot_preview_visible, hookVars, fileVars, dispVars, audVars, app_state>>

next_screenshot == Browse(1)

prev_screenshot == Browse(-1)

(***************************************************************************)
(* Ctrl+P: toggle_screenshot_preview.                                      *)
(***************************************************************************)
toggle_screenshot_preview ==
    /\ hk = "idle"
    /\ Forwarded
    /\ IF current_screenshot = None
       THEN UNCHANGED prevVars
       ELSE IF screenshot_preview_visible
            THEN close_screenshot_preview
            ELSE /\ screenshot_preview_visible' = TRUE
                 /\ UNCHANGED current_screenshot
    /\ UNCHANGED <<ctxVars, hookVars, fileVars, dispVars, audVars, app_state>>

(***************************************************************************)
(* Messages on text_queue.  A message is a record; the formatted           *)
(* conversation history carries the history it was formatted from.         *)
(***************************************************************************)
Msg(k) == [kind |-> k, body |-> <<>>]

\* api_manager.get_conversation_history
get_conversation_history(hist) ==
    IF hist = <<>> THEN Msg("Ready...") ELSE [kind |-> "history", body |-> hist]

(***************************************************************************)
(* Ctrl+G: clear all, five steps of the hook thread (hook mode).           *)
(***************************************************************************)
KeyClearAll ==
    /\ hk = "idle"
    /\ ~fallback
    /\ Forwarded
    /\ Len(text_queue) <= MaxQueue
    /\ current_transcript' = <<>>
    /\ hk' = "g_flag"
    /\ UNCHANGED <<screenshot_collection, current_screenshot_index, has_recent_screenshot,
                   prevVars, fallback, window_hidden, fileVars, shots, dispVars, audVars, app_state>>

ClearAllFlag ==
    /\ hk = "g_flag"
    /\ has_recent_screenshot' = FALSE
    /\ hk' = "g_clear"
    /\ UNCHANGED <<current_transcript, screenshot_collection, current_screenshot_index,
                   prevVars, fallback, window_hidden, fileVars, shots, dispVars, audVars, app_state>>

ClearAllShots == hk = "g_clear" /\ ClearShotsBegin("g_hist")

ClearAllShotsRest == ClearShotsRest("g_rest", "g_hist")

\* api_manager.clear_history() and text_queue.put("Ready...")
ClearAllHistory ==
    /\ hk = "g_hist"
    /\ conversation_history' = <<>>
    /\ text_queue' = Append(text_queue, Msg("Ready..."))
    /\ hk' = "idle"
    /\ UNCHANGED <<ctxVars, prevVars, fallback, window_hidden, fileVars, shots, tasks, overlay_text, current_code,
                   analyzes, audVars, app_state>>

(***************************************************************************)
(* Ctrl+G of the fallback bindings (on_ctrl_g): the screenshots stay.      *)
(***************************************************************************)
FallbackClearAll ==
    /\ hk = "idle"
    /\ fallback
    /\ Len(text_queue) <= MaxQueue
    /\ current_transcript' = <<>>
    /\ hk' = "fg_flag"
    /\ UNCHANGED <<screenshot_collection, current_screenshot_index, has_recent_screenshot,
                   prevVars, fallback, window_hidden, fileVars, shots, dispVars, audVars, app_state>>

FallbackClearAllRest ==
    /\ hk = "fg_flag"
    /\ has_recent_screenshot' = FALSE
    /\ conversation_history' = <<>>
    /\ text_queue' = Append(text_queue, Msg("Ready..."))
    /\ hk' = "idle"
    /\ UNCHANGED <<current_transcript, screenshot_collection, current_screenshot_index,
                   prevVars, fallback, window_hidden, fileVars, shots, tasks, overlay_text, current_code, analyzes,
                   audVars, app_state>>

(***************************************************************************)
(* The asyncio loop.  A process_openai coroutine scheduled by              *)
(* run_coroutine_threadsafe is a record of tasks: its position pc, its     *)
(* locals (text, has_screen, count, the branch taken, the capture it       *)
(* made, the request it sent, the value the API manager returned) and,     *)
(* for the properties, what it was handed when the command was issued:     *)
(* overlap (a request was outstanding) and snap (the context).             *)
(* A coroutine that ends leaves tasks.                                     *)
(***************************************************************************)
NoReq == [kind |-> "none", images |-> <<>>, text |-> <<>>]

Outstanding == \E j \in 1..Len(tasks) : tasks[j].pc = "calling"

NewTask ==
    [pc |-> "queued", overlap |-> Outstanding,
     snap |-> [text |-> Strip(current_transcript), imgs |-> Images(screenshot_collection)],
     text |-> <<>>, has_screen |-> FALSE, count |-> 0, mode |-> "",
     capture |-> "none", req |-> NoReq, resp |-> ""]

\* a Ctrl+Enter handler that would drop the command while a request is outstanding
KeyAnalyzeSingleFlight ==
    /\ hk = "idle"
    /\ Forwarded
    /\ IF Outstanding
       THEN UNCHANGED <<text_queue, tasks>>
       ELSE /\ text_queue' = Append(text_queue, Msg("Processing..."))
            /\ tasks' = Append(tasks, NewTask)
    /\ UNCHANGED <<ctxVars, prevVars, hookVars, fileVars, overlay_text, conversation_history,
                   current_code, audVars, app_state>>

\* a Ctrl+Enter handler that would ignore the command while the state is "processing"
KeyAnalyzeGated ==
    /\ hk = "idle"
    /\ Forwarded
    /\ app_state # "processing"
    /\ text_queue' = Append(text_queue, Msg("Processing..."))
    /\ tasks' = Append(tasks, NewTask)
    /\ UNCHANGED <<ctxVars, prevVars, hookVars, fileVars, overlay_text, conversation_history,
                   current_code, audVars, app_state>>

\* Ctrl+Enter, in both binding modes
KeyAnalyze ==
    /\ hk = "idle"
    /\ Forwarded
    /\ text_queue' = Append(text_queue, Msg("Processing..."))
    /\ tasks' = Append(tasks, NewTask)
    /\ UNCHANGED <<ctxVars, prevVars, hookVars, fileVars, overlay_text, conversation_history,
                   current_code, audVars, app_state>>

\* Whether a coroutine awaiting the remote answer gives the loop to the next
\* one.  client.chat.completions.create is the synchronous client and
\* _process_stream_response iterates the stream with a plain for: the await
\* never suspends, the loop thread is blocked until the answer is complete.
AwaitSuspendsAsync == TRUE

AwaitSuspends == FALSE

\* the coroutine holds the loop thread
Holds(t) == t.pc \in {"selected", "returned"} \/ (t.pc = "calling" /\ ~AwaitSuspends)

LoopFreeFor(i) == \A j \in 1..Len(tasks) : j # i => ~Holds(tasks[j])

\* tasks without the coroutine i
Without(i) == [j \in 1..(Len(tasks) - 1) |-> IF j < i THEN tasks[j] ELSE tasks[j + 1]]

\* the branch of process_openai
ModeOf(has_voice, has_screen, count) ==
    IF has_voice /\ has_screen
    THEN IF count > 1 THEN "multi_voice" ELSE "single_voice"
    ELSE IF has_voice THEN "voice"
    ELSE IF has_screen
    THEN IF count > 1 THEN "multi" ELSE "single"
    ELSE "none"

\* a process_openai whose no-content branch would publish nothing
SelectSilent(i) ==
    /\ tasks[i].pc = "queued"
    /\ \A j \in 1..(i - 1) : tasks[j].pc # "queued"
    /\ LoopFreeFor(i)
    /\ close_screenshot_preview
    /\ LET user_text == Strip(current_transcript)
           count == Len(screenshot_collection)
           m == ModeOf(user_text # <<>>, has_recent_screenshot, count)
       IN  IF m = "none"
           THEN /\ tasks' = Without(i)
                /\ UNCHANGED text_queue
                /\ app_state' = "ready"
           ELSE /\ tasks' = [tasks EXCEPT ![i].pc = "selected", ![i].text = user_text,
                                          ![i].has_screen = has_recent_screenshot,
                                          ![i].count = count, ![i].mode = m]
                /\ UNCHANGED <<text_queue, app_state>>
    /\ UNCHANGED <<ctxVars, hookVars, fileVars, overlay_text, conversation_history, current_code,
                   analyzes, audVars>>

\* process_openai up to the choice of the branch; the last branch ends here
Select(i) ==
    /\ tasks[i].pc = "queued"
    /\ \A j \in 1..(i - 1) : tasks[j].pc # "queued"
    /\ LoopFreeFor(i)
    /\ close_screenshot_preview
    /\ LET user_text == Strip(current_transcript)
           count == Len(screenshot_collection)
           m == ModeOf(user_text # <<>>, has_recent_screenshot, count)
       IN  IF m = "none"
           THEN /\ tasks' = Without(i)
                /\ text_queue' = Append(text_queue, Msg("hint"))
                /\ app_state' = "ready"
           ELSE /\ tasks' = [tasks EXCEPT ![i].pc = "selected", ![i].text = user_text,
                                          ![i].has_screen = has_recent_screenshot,
                                          ![i].count = count, ![i].mode = m]
                /\ UNCHANGED <<text_queue, app_state>>
    /\ UNCHANGED <<ctxVars, hookVars, fileVars, overlay_text, conversation_history, current_code,
                   analyzes, audVars>>

\* the coroutine ends without a remote call: message, state ("" leaves the state)
Fail(i, msg, st) ==
    /\ tasks' = Without(i)
    /\ text_queue' = Append(text_queue, Msg(msg))
    /\ app_state' = IF st = "" THEN app_state ELSE st

\* set_app_state("processing") and the remote call begins
Call(i, cap, kind, images, text) ==
    /\ tasks' = [tasks EXCEPT ![i].pc = "calling", ![i].capture = cap,
                              ![i].req = [kind |-> kind, images |-> images, text |-> text]]
    /\ app_state' = "processing"
    /\ UNCHANGED text_queue

\* a single-screenshot branch whose failed capture ends the coroutine in both modes
SingleImageNoDegrade(i, text, ok) ==
    IF current_screenshot # None
    THEN Call(i, "none", "single", <<current_screenshot>>, text)
    ELSE IF ok
    THEN Call(i, "ok", "single", <<FreshImage>>, text)
    ELSE Fail(i, "capture_error", "error")

\* the image for the single-screenshot branches: the preview image if there
\* is one, else a capture_screen() of the coroutine's own
SingleImage(i, text, ok) ==
    IF current_screenshot # None
    THEN Call(i, "none", "single", <<current_screenshot>>, text)
    ELSE IF ok
    THEN Call(i, "ok", "single", <<FreshImage>>, text)
    ELSE IF tasks[i].mode = "single_voice"
    THEN \* degraded to send_text_to_openai(user_text)
         Call(i, "failed", "text", <<>>, text)
    ELSE Fail(i, "capture_error", "error")

\* the branch body up to the remote call
Build(i) ==
    /\ tasks[i].pc = "selected"
    /\ LET t == tasks[i]
           text == IF t.mode \in {"multi", "single"} THEN <<>> ELSE t.text
       IN  CASE t.mode \in {"multi_voice", "multi"} ->
                  \* send_multiple_screenshots_to_openai reads the collection again
                  IF screenshot_collection = <<>>
                  THEN Fail(i, "no_screenshots", "")
                  ELSE Call(i, "none", "multi", Images(screenshot_collection), text)
             [] t.mode \in {"single_voice", "single"} ->
                  \E ok \in BOOLEAN : SingleImage(i, text, ok)
             [] t.mode = "voice" ->
                  Call(i, "none", "text", <<>>, text)
    /\ UNCHANGED <<ctxVars, prevVars, hookVars, fileVars, overlay_text, conversation_history,
                   current_code, analyzes, audVars>>

(***************************************************************************)
(* The API manager.  An outcome of the remote call is one of               *)
(*   raise       chat.completions.create (or image_to_base64) raises,      *)
(*   stream_err  the stream raises while it is read,                       *)
(*   code_stream_err  the same after a fenced code block has been read,    *)
(*   empty/blank the stream ends with no text / with white space only,     *)
(*   text/code   an answer without / with a fenced code block.             *)
(* A returned value is a string; "" stands for None and for "".            *)
(***************************************************************************)
Outcomes == {"raise", "stream_err", "code_stream_err", "empty", "blank", "text", "code"}

\* full_response as collected from _process_stream_response, which yields
\* the text of the exception as one more chunk
FullResponse(outcome) ==
    CASE outcome = "stream_err" -> "err_stream"
      [] outcome = "code_stream_err" -> "code_err_stream"
      [] outcome = "empty" -> ""
      [] outcome = "blank" -> " "
      [] outcome = "text" -> "text"
      [] outcome = "code" -> "code"

StripStr(r) == IF r = " " THEN "" ELSE r

Question(kind, text) ==
    IF text # <<>> \/ kind = "text" THEN text
    ELSE IF kind = "single" THEN <<"[Screen Analysis]">>
    ELSE <<"[Multi-Screen Analysis]">>

\* analyze_screen, analyze_multiple_screens, analyze_text_only after the
\* request is sent: the value returned and the conversation history
ApiReturn(kind, outcome, text, hist) ==
    IF outcome = "raise"
    THEN [resp |-> IF kind = "text" THEN "" ELSE "err_analyze", hist |-> hist]
    ELSE LET full == FullResponse(outcome)
         IN  IF StripStr(full) # ""
             THEN [resp |-> IF kind = "text" THEN StripStr(full) ELSE full,
                   hist |-> Append(hist, <<Question(kind, text),
                                           IF kind = "text" THEN StripStr(full) ELSE full>>)]
             ELSE [resp |-> "", hist |-> hist]

\* re.findall of the fenced blocks, joined
extract_code_from_response(resp) ==
    IF resp \in {"code", "code_err_stream"} THEN "snippet" ELSE ""

\* the remote call of the coroutine returns a value to send_to_openai,
\* send_text_to_openai or send_multiple_screenshots_to_openai
Return(i, outcome) ==
    /\ tasks[i].pc = "calling"
    /\ LoopFreeFor(i)
    /\ LET r == ApiReturn(tasks[i].req.kind, outcome, tasks[i].req.text,
                           conversation_history)
       IN  /\ conversation_history' = r.hist
           /\ tasks' = [tasks EXCEPT ![i].pc = "returned", ![i].resp = r.resp]
    /\ UNCHANGED <<ctxVars, prevVars, hookVars, fileVars, text_queue, overlay_text, current_code,
                   analyzes, audVars, app_state>>

\* a sender that would call again after an empty answer
HandleRetries(i) ==
    /\ tasks[i].pc = "returned"
    /\ LET resp == tasks[i].resp
           code == extract_code_from_response(resp)
       IN  IF resp # ""
           THEN /\ current_code' = IF code # "" THEN code ELSE current_code
                /\ text_queue' = Append(text_queue,
                                        get_conversation_history(conversation_history))
                /\ app_state' = "ready"
                /\ tasks' = Without(i)
           ELSE /\ UNCHANGED <<current_code, text_queue>>
                /\ app_state' = "error"
                /\ tasks' = [tasks EXCEPT ![i].pc = "selected"]
    /\ UNCHANGED <<ctxVars, prevVars, hookVars, fileVars, overlay_text, conversation_history,
                   analyzes, audVars>>

\* a sender that would consume the question: it clears the transcript
HandleConsumes(i) ==
    /\ tasks[i].pc = "returned"
    /\ text_queue' = Append(text_queue,
                            IF tasks[i].resp # ""
                            THEN get_conversation_history(conversation_history)
                            ELSE Msg("No response from OpenAI"))
    /\ app_state' = IF tasks[i].resp # "" THEN "ready" ELSE "error"
    /\ current_transcript' = <<>>
    /\ tasks' = Without(i)
    /\ UNCHANGED <<screenshot_collection, current_screenshot_index, has_recent_screenshot,
                   prevVars, hookVars, fileVars, overlay_text, conversation_history, current_code,
                   analyzes, audVars>>

\* the sender handles the value: code, message, state; the coroutine ends
Handle(i) ==
    /\ tasks[i].pc = "returned"
    /\ LET resp == tasks[i].resp
           code == extract_code_from_response(resp)
       IN  IF resp # ""
           THEN /\ current_code' = IF code # "" THEN code ELSE current_code
                /\ text_queue' = Append(text_queue,
                                        get_conversation_history(conversation_history))
                /\ app_state' = "ready"
           ELSE /\ UNCHANGED current_code
                /\ text_queue' = Append(text_queue, Msg("No response from OpenAI"))
                /\ app_state' = "error"
    /\ tasks' = Without(i)
    /\ UNCHANGED <<ctxVars, prevVars, hookVars, fileVars, overlay_text, conversation_history,
                   analyzes, audVars>>

(***************************************************************************)
(* The main thread: update_overlay and the preview timer of                *)
(* render_screenshot_preview.                                              *)
(***************************************************************************)
update_overlay ==
    /\ hk # "exit"
    /\ text_queue # <<>>
    /\ overlay_text' = text_queue[Len(text_queue)]
    /\ text_queue' = <<>>
    /\ UNCHANGED <<ctxVars, prevVars, hookVars, fileVars, tasks, conversation_history, current_code,
                   analyzes, audVars, app_state>>

PreviewTimeout ==
    /\ hk # "exit"
    /\ screenshot_preview_visible
    /\ current_screenshot # None
    /\ close_screenshot_preview
    /\ UNCHANGED <<ctxVars, hookVars, fileVars, dispVars, audVars, app_state>>

(***************************************************************************)
(* AudioManager.start_recording and stop_recording as functions of the     *)
(* manager's state: the flag and the live transcription threads.           *)
(* started: stream.start_stream() and Thread.start() do not raise.         *)
(***************************************************************************)
AudioMgr == [is_recording |-> is_recording, workers |-> workers]

\* a start whose exception handler would leave the flag set
start_recording_keeps_flag(a, started) ==
    IF ~use_speech \/ a.is_recording THEN a
    ELSE [is_recording |-> TRUE, workers |-> IF started THEN a.workers + 1 ELSE a.workers]

\* a start without the test of is_recording
start_recording_again(a, started) ==
    IF ~use_speech THEN a
    ELSE IF started THEN [is_recording |-> TRUE, workers |-> a.workers + 1]
    ELSE [a EXCEPT !.is_recording = FALSE]

start_recording(a, started) ==
    IF ~use_speech \/ a.is_recording THEN a
    ELSE IF started THEN [is_recording |-> TRUE, workers |-> a.workers + 1]
    ELSE [a EXCEPT !.is_recording = FALSE]

\* a stop that would leave the flag set
stop_recording_keeps_flag(a) == a

stop_recording(a) ==
    IF ~use_speech \/ ~a.is_recording THEN a
    ELSE [a EXCEPT !.is_recording = FALSE]

\* main() leaves its loop (Alt+F4): cleanup_screenshots, the preview,
\* audio_mgr.cleanup() with its stop_recording
Shutdown ==
    /\ hk = "idle"
    /\ hk' = "exit"
    /\ screenshot_collection' = <<>>
    /\ current_screenshot' = None
    /\ has_recent_screenshot' = FALSE
    /\ screenshot_preview_visible' = FALSE
    /\ is_recording' = stop_recording(AudioMgr).is_recording
    /\ disk' = Removed({screenshot_files[i] : i \in 1..Len(screenshot_files)})
    /\ screenshot_files' = <<>>
    /\ UNCHANGED <<current_transcript, current_screenshot_index, fallback, window_hidden,
                   undeletable, attempts, shots, dispVars, use_speech, recording_active, workers,
                   audio_buffer, reads, busy,
                   batches, toggles, app_state>>

(***************************************************************************)
(* AudioManager and Ctrl+V.                                                *)
(***************************************************************************)
\* what start_recording() returns to toggle_recording: the method has no
\* return statement, the value is None
StartRecordingReturn == FALSE

\* a toggle_recording that would start the recording whether or not speech
\* is available
ToggleRecordingUnguarded(started) ==
    /\ hk = "idle"
    /\ Forwarded
    /\ IF recording_active
       THEN /\ is_recording' = FALSE
            /\ recording_active' = FALSE
            /\ app_state' = "ready"
            /\ UNCHANGED workers
       ELSE /\ IF is_recording \/ ~started
               THEN UNCHANGED <<is_recording, workers>>
               ELSE /\ is_recording' = TRUE
                    /\ workers' = workers + 1
            /\ UNCHANGED <<recording_active, app_state>>
    /\ UNCHANGED <<ctxVars, prevVars, hookVars, fileVars, dispVars, use_speech, audio_buffer, reads, busy,
                   batches>>

\* toggle_recording with a start_recording whose stream starts or fails
ToggleRecording(started) ==
    /\ hk = "idle"
    /\ Forwarded
    /\ IF ~use_speech
       THEN UNCHANGED <<is_recording, recording_active, workers, app_state>>
       ELSE IF recording_active
       THEN LET a == stop_recording(AudioMgr)
            IN  /\ is_recording' = a.is_recording
                /\ workers' = a.workers
                /\ recording_active' = FALSE
                /\ app_state' = "ready"
       ELSE LET a == start_recording(AudioMgr, started)
            IN  /\ is_recording' = a.is_recording
                /\ workers' = a.workers
                /\ IF StartRecordingReturn
                   THEN /\ recording_active' = TRUE
                        /\ app_state' = "listening"
                   ELSE UNCHANGED <<recording_active, app_state>>
    /\ UNCHANGED <<ctxVars, prevVars, hookVars, fileVars, dispVars, use_speech, audio_buffer, reads, busy,
                   batches>>

toggle_recording == \E started \in BOOLEAN : ToggleRecording(started)

KeyToggleRecording == toggle_recording /\ UNCHANGED toggles

\* the callback of the transcription thread
on_transcript_updated(transcript) ==
    /\ current_transcript' = transcript
    /\ app_state' = "listening"

\* an acceptance that would append the text to the transcript
ProcessAudioBufferAppends(raw) ==
    LET text == Strip(raw)
    IN  IF raw # <<"raise">> /\ text # <<>> /\ Len(text) > 2
        THEN on_transcript_updated(current_transcript \o text)
        ELSE UNCHANGED <<current_transcript, app_state>>

\* _process_audio_buffer on what whisper returned for the window
ProcessAudioBuffer(raw) ==
    LET text == Strip(raw)
    IN  IF raw # <<"raise">> /\ text # <<>> /\ Len(text) > 2
        THEN on_transcript_updated(text)
        ELSE UNCHANGED <<current_transcript, app_state>>

\* a test that would count the buffer before the chunk just appended
WindowFullLate(n) == (n - 1) * chunk_size >= sampling_rate * buffer_duration

\* total_frames >= buffer_frames for a buffer of n chunks
WindowFull(n) == n * chunk_size >= sampling_rate * buffer_duration

\* a flush that would leave the newest chunk in the buffer it has handed over
TakeBufferKeepsLast(buf, raw) ==
    /\ audio_buffer' = <<buf[Len(buf)]>>
    /\ batches' = Append(batches, [chunks |-> buf, raw |-> raw])

\* _process_audio_buffer: np.concatenate of the buffer, the buffer emptied,
\* the window handed to transcribe, which answers raw
TakeBuffer(buf, raw) ==
    /\ audio_buffer' = <<>>
    /\ batches' = Append(batches, [chunks |-> buf, raw |-> raw])

\* an exception of the iteration that would reach the outer try: the worker ends
AfterErrorOuter(w) == w - 1

\* the live workers after an iteration raised: the inner except logs, sleeps
\* 0.1 s and the loop goes on
AfterError(w) == w

\* the body of one iteration of _transcription_worker: a read, the append,
\* and _process_audio_buffer when the buffer holds buffer_frames
Iteration ==
    /\ \E readok \in BOOLEAN :
         IF ~readok
         THEN /\ workers' = AfterError(workers)
              /\ UNCHANGED <<audio_buffer, reads, batches, current_transcript, app_state>>
         ELSE LET buf == Append(audio_buffer, reads + 1)
              IN  /\ reads' = reads + 1
                  /\ UNCHANGED workers
                  /\ IF ~WindowFull(Len(buf))
                     THEN /\ audio_buffer' = buf
                          /\ UNCHANGED <<batches, current_transcript, app_state>>
                     ELSE \E raw \in RawTexts \cup {<<"raise">>} :
                              /\ TakeBuffer(buf, raw)
                              /\ ProcessAudioBuffer(raw)
    /\ UNCHANGED <<screenshot_collection, current_screenshot_index, has_recent_screenshot,
                   prevVars, hookVars, fileVars, dispVars, use_speech, is_recording,
                   recording_active, toggles>>

\* one iteration of _transcription_worker with its test, taken as one step:
\* nothing stops the recording between the test and the end of the body
WorkerRead ==
    /\ workers > busy
    /\ is_recording
    /\ Iteration
    /\ UNCHANGED busy

\* the same iteration in two steps.  The test of the loop: the worker sees
\* is_recording set and enters the body
WorkerEnter ==
    /\ workers > busy
    /\ is_recording
    /\ busy' = busy + 1
    /\ UNCHANGED <<ctxVars, prevVars, hookVars, fileVars, dispVars, use_speech, is_recording,
                   recording_active, workers, audio_buffer, reads, batches, toggles, app_state>>

\* the body, whatever is_recording has become since the test
WorkerBody ==
    /\ busy > 0
    /\ Iteration
    /\ busy' = busy - 1

\* the iterations of _transcription_worker that fill one window from an
\* empty buffer, and its _process_audio_buffer, taken as one step; the
\* chunks of the window are not numbered
WorkerWindow ==
    /\ workers > busy
    /\ is_recording
    /\ \E raw \in RawTexts \cup {<<"raise">>} : ProcessAudioBuffer(raw)
    /\ UNCHANGED <<screenshot_collection, current_screenshot_index, has_recent_screenshot,
                   prevVars, hookVars, fileVars, dispVars, audVars>>

\* the worker sees is_recording false and ends
WorkerExit ==
    /\ workers > busy
    /\ ~is_recording
    /\ workers' = workers - 1
    /\ UNCHANGED <<ctxVars, prevVars, hookVars, fileVars, dispVars, use_speech, is_recording,
                   recording_active, audio_buffer, reads, busy, batches, toggles, app_state>>

(***************************************************************************)
(* The threads.  The loop thread is given the outcomes the remote service  *)
(* may produce.                                                            *)
(***************************************************************************)
LoopThread(outs) ==
    \E i \in 1..Len(tasks) :
        \/ Select(i)
        \/ Build(i)
        \/ \E outcome \in outs : Return(i, outcome)
        \/ Handle(i)

MainThread == update_overlay \/ PreviewTimeout

\* the handlers of global_key_handler
HookThread ==
    \/ SaveShotAppend \/ SaveShotEvict \/ SaveShotFinish
    \/ KeyClearShots \/ KeyClearShotsRest
    \/ next_screenshot \/ prev_screenshot
    \/ toggle_screenshot_preview
    \/ KeyClearAll \/ ClearAllFlag \/ ClearAllShots \/ ClearAllShotsRest \/ ClearAllHistory
    \/ KeyAnalyze
    \/ toggle_recording

\* the transcription thread
WorkerThread == WorkerRead \/ WorkerWindow \/ WorkerExit

(***************************************************************************)
(* The dispatch pipeline with the hook bindings: all four threads, every   *)
(* outcome of the remote call.                                             *)
(***************************************************************************)
KeyScreenshotD == shots < MaxShotsD /\ SaveShotAppend /\ UNCHANGED attempts

KeyAnalyzeD == analyzes < MaxAnalyzeD /\ analyzes' = analyzes + 1 /\ KeyAnalyze

Init ==
    /\ InitCommon
    /\ fallback = FALSE
    /\ use_speech = TRUE
    /\ undeletable = {}

Next ==
    \/ KeyScreenshotD
    \/ SaveShotEvict
    \/ SaveShotFinish
    \/ KeyClearShots
    \/ KeyClearShotsRest
    \/ next_screenshot
    \/ toggle_screenshot_preview
    \/ KeyClearAll
    \/ ClearAllFlag
    \/ ClearAllShots
    \/ ClearAllShotsRest
    \/ ClearAllHistory
    \/ KeyAnalyzeD
    \/ KeyToggleRecording
    \/ LoopThread(Outcomes)
    \/ MainThread
    \/ WorkerWindow

Spec == Init /\ [][Next]_vars

(***************************************************************************)
(* Overlapping Ctrl+Enter commands: screenshots and analyses only.         *)
(***************************************************************************)
KeyAnalyzeO == analyzes < MaxAnalyze /\ analyzes' = analyzes + 1 /\ KeyAnalyze

NextOverlap ==
    \/ KeyScreenshotD
    \/ SaveShotEvict
    \/ SaveShotFinish
    \/ KeyAnalyzeO
    \/ LoopThread({"empty", "text"})
    \/ MainThread

SpecOverlap == Init /\ [][NextOverlap]_vars

(***************************************************************************)
(* The writers of the context: every handler that writes it, the worker,   *)
(* the shutdown of main(); one coroutine at a time and a remote service    *)
(* that answers nothing.                                                   *)
(***************************************************************************)
KeyAnalyzeW ==
    /\ tasks = <<>>
    /\ Len(text_queue) <= MaxQueue
    /\ KeyAnalyze
    /\ UNCHANGED analyzes

NextOwners ==
    \/ KeyScreenshotD
    \/ SaveShotEvict
    \/ SaveShotFinish
    \/ KeyClearShots
    \/ KeyClearShotsRest
    \/ next_screenshot
    \/ prev_screenshot
    \/ KeyClearAll
    \/ ClearAllFlag
    \/ ClearAllShots
    \/ ClearAllShotsRest
    \/ ClearAllHistory
    \/ KeyAnalyzeW
    \/ KeyToggleRecording
    \/ LoopThread({"empty"})
    \/ MainThread
    \/ Shutdown
    \/ WorkerWindow

SpecOwners == Init /\ [][NextOwners]_vars

(***************************************************************************)
(* The single-screenshot branches: screenshots, voice and analyses.        *)
(***************************************************************************)
NextCapture ==
    \/ KeyScreenshotD
    \/ SaveShotEvict
    \/ SaveShotFinish
    \/ next_screenshot
    \/ KeyAnalyzeD
    \/ KeyToggleRecording
    \/ LoopThread({"empty", "text"})
    \/ PreviewTimeout
    \/ WorkerWindow

SpecCapture == Init /\ [][NextCapture]_vars

(***************************************************************************)
(* The dispatch pipeline with the fallback bindings (keyboard.hook         *)
(* failed): Ctrl+H, Ctrl+G, Ctrl+P, Ctrl+V and Ctrl+Enter.                 *)
(***************************************************************************)
KeyScreenshotF == shots < MaxShotsF /\ SaveShotAppend /\ UNCHANGED attempts

InitFallback ==
    /\ InitCommon
    /\ fallback = TRUE
    /\ use_speech = TRUE
    /\ undeletable = {}

NextFallback ==
    \/ KeyScreenshotF
    \/ SaveShotEvict
    \/ SaveShotFinish
    \/ toggle_screenshot_preview
    \/ FallbackClearAll
    \/ FallbackClearAllRest
    \/ KeyAnalyzeD
    \/ KeyToggleRecording
    \/ LoopThread({"empty", "text"})
    \/ MainThread
    \/ WorkerWindow

SpecFallback == InitFallback /\ [][NextFallback]_vars

(***************************************************************************)
(* Successful and failed Ctrl+H commands and browsing, no clear.           *)
(***************************************************************************)
KeyScreenshot == shots < MaxShots /\ SaveShotAppend /\ UNCHANGED attempts

InitAdds ==
    /\ InitCommon
    /\ fallback = FALSE
    /\ use_speech = FALSE
    /\ undeletable = {}

NextAdds ==
    \/ KeyScreenshot
    \/ SaveShotEvict
    \/ SaveShotFinish
    \/ next_screenshot
    \/ prev_screenshot

SpecAdds == InitAdds /\ [][NextAdds]_vars

(***************************************************************************)
(* Recording: Ctrl+V, the transcription worker, the shutdown.              *)
(***************************************************************************)
KeyToggleRecordingA ==
    /\ toggles < MaxToggles
    /\ toggles' = toggles + 1
    /\ toggle_recording

InitAudio ==
    /\ InitCommon
    /\ fallback = FALSE
    /\ use_speech \in BOOLEAN
    /\ undeletable = {}

\* stream.read() returns within the bound
WorkerReadA == reads < MaxReads /\ WorkerRead

NextAudio ==
    \/ KeyToggleRecordingA
    \/ WorkerReadA
    \/ WorkerExit
    \/ Shutdown

SpecAudio == InitAudio /\ [][NextAudio]_vars


(***************************************************************************)
(* Recording with a worker that is scheduled: each stream.read() and each  *)
(* transcribe() returns or raises, so the thread comes back to the test of *)
(* its loop.                                                               *)
(***************************************************************************)
SpecAudioFair == InitAudio /\ [][NextAudio]_vars /\ WF_vars(WorkerExit)

(***************************************************************************)
(* Ctrl+B: toggle_window_visibility, in both binding modes; the hidden     *)
(* filter of global_key_handler lets it through.                           *)
(***************************************************************************)
toggle_window_visibility ==
    /\ hk = "idle"
    /\ window_hidden' = ~window_hidden
    /\ UNCHANGED <<ctxVars, prevVars, hk, fallback, shots, fileVars, dispVars, audVars,
                   app_state>>

(***************************************************************************)
(* The key bindings of either mode and the main thread: the window is      *)
(* hidden and shown while commands are issued.                             *)
(***************************************************************************)
InitHidden ==
    /\ InitCommon
    /\ fallback \in BOOLEAN
    /\ use_speech = TRUE
    /\ undeletable = {}

NextHidden ==
    \/ toggle_window_visibility
    \/ KeyScreenshotD
    \/ SaveShotEvict
    \/ SaveShotFinish
    \/ KeyClearShots
    \/ KeyClearShotsRest
    \/ next_screenshot
    \/ toggle_screenshot_preview
    \/ KeyClearAll
    \/ ClearAllFlag
    \/ ClearAllShots
    \/ ClearAllShotsRest
    \/ ClearAllHistory
    \/ FallbackClearAll
    \/ FallbackClearAllRest
    \/ KeyAnalyzeD
    \/ KeyToggleRecording
    \/ MainThread
    \/ Shutdown

SpecHidden == InitHidden /\ [][NextHidden]_vars

(***************************************************************************)
(* Commands in every application state: screenshots, clear, navigation,    *)
(* recording and overlapping analyses that the remote service answers      *)
(* with nothing; the hook, asyncio and transcription threads.              *)
(***************************************************************************)
NextCommands ==
    \/ KeyScreenshotD
    \/ SaveShotEvict
    \/ SaveShotFinish
    \/ KeyClearShots
    \/ KeyClearShotsRest
    \/ next_screenshot
    \/ KeyAnalyzeO
    \/ KeyToggleRecording
    \/ LoopThread({"empty"})
    \/ WorkerWindow

SpecCommands == Init /\ [][NextCommands]_vars

(***************************************************************************)
(* Speech available or not (-s, or the audio initialisation failed):       *)
(* screenshots, Ctrl+V, the worker and analyses.                           *)
(***************************************************************************)
InitSpeech ==
    /\ InitCommon
    /\ fallback = FALSE
    /\ use_speech \in BOOLEAN
    /\ undeletable = {}

NextSpeech ==
    \/ KeyScreenshotF
    \/ SaveShotEvict
    \/ SaveShotFinish
    \/ KeyAnalyzeD
    \/ KeyToggleRecordingA
    \/ LoopThread({"empty", "text"})
    \/ WorkerWindow

SpecSpeech == InitSpeech /\ [][NextSpeech]_vars

(***************************************************************************)
(* The screenshot files: Ctrl+H with captures that succeed or fail, the    *)
(* eviction, Ctrl+X, Ctrl+V and the worker; some of the first files        *)
(* cannot be deleted.                                                      *)
(***************************************************************************)
KeyScreenshotT ==
    /\ attempts < MaxAttempts
    /\ attempts' = attempts + 1
    /\ SaveShotAppend

InitFiles ==
    /\ InitCommon
    /\ fallback = FALSE
    /\ use_speech = TRUE
    /\ undeletable \in SUBSET (1..MaxLocked)

NextFiles ==
    \/ KeyScreenshotT
    \/ SaveShotEvict
    \/ SaveShotFinish
    \/ KeyClearShots
    \/ KeyClearShotsRest
    \/ KeyToggleRecording
    \/ WorkerWindow

SpecFiles == InitFiles /\ [][NextFiles]_vars

(***************************************************************************)
(* The AudioManager on its own: any sequence of start_recording and        *)
(* stop_recording calls, and the worker with the test of its loop and the  *)
(* body of an iteration as separate steps.                                 *)
(***************************************************************************)
StartRecordingCall ==
    /\ hk = "idle"
    /\ workers < MaxWorkers
    /\ \E started \in BOOLEAN :
         LET a == start_recording(AudioMgr, started)
         IN  /\ is_recording' = a.is_recording
             /\ workers' = a.workers
    /\ UNCHANGED <<ctxVars, prevVars, hookVars, fileVars, dispVars, use_speech, recording_active,
                   audio_buffer, reads, busy, batches, toggles, app_state>>

StopRecordingCall ==
    /\ hk = "idle"
    /\ LET a == stop_recording(AudioMgr)
       IN  /\ is_recording' = a.is_recording
           /\ workers' = a.workers
    /\ UNCHANGED <<ctxVars, prevVars, hookVars, fileVars, dispVars, use_speech, recording_active,
                   audio_buffer, reads, busy, batches, toggles, app_state>>

\* stream.read() returns within the bound
WorkerEnterA == reads + busy < MaxReads /\ WorkerEnter

InitManager ==
    /\ InitCommon
    /\ fallback = FALSE
    /\ use_speech = TRUE
    /\ undeletable = {}

NextManager ==
    \/ StartRecordingCall
    \/ StopRecordingCall
    \/ WorkerEnterA
    \/ WorkerBody
    \/ WorkerExit

SpecManager == InitManager /\ [][NextManager]_vars

(***************************************************************************)
(* Overlapping Ctrl+Enter commands with threads that are scheduled: the    *)
(* remote call returns or raises, so the loop thread takes the next step   *)
(* of its coroutine, and the main loop calls update_overlay every frame.   *)
(***************************************************************************)
SpecOverlapFair ==
    /\ Init
    /\ [][NextOverlap]_vars
    /\ WF_vars(LoopThread({"empty", "text"}))
    /\ WF_vars(update_overlay)

(***************************************************************************)
(* The cursor: Ctrl+H up to the eviction, Ctrl+N, Ctrl+M, Ctrl+X and       *)
(* Ctrl+G, with the main loop draining the queue.                          *)
(***************************************************************************)
NextCursor ==
    \/ KeyScreenshot
    \/ SaveShotEvict
    \/ SaveShotFinish
    \/ next_screenshot
    \/ prev_screenshot
    \/ KeyClearShots
    \/ KeyClearShotsRest
    \/ KeyClearAll
    \/ ClearAllFlag
    \/ ClearAllShots
    \/ ClearAllShotsRest
    \/ ClearAllHistory
    \/ update_overlay

SpecCursor == InitAdds /\ [][NextCursor]_vars

(***************************************************************************)
(* Every command of the hook bindings next to the transcription thread:    *)
(* screenshots, clear, navigation, Ctrl+B, Ctrl+V, Ctrl+G and repeated     *)
(* analyses, one at a time, that succeed or fail.                          *)
(***************************************************************************)
KeyAnalyzeS == tasks = <<>> /\ KeyAnalyzeO

NextTranscript ==
    \/ KeyScreenshotD
    \/ SaveShotEvict
    \/ SaveShotFinish
    \/ KeyClearShots
    \/ KeyClearShotsRest
    \/ next_screenshot
    \/ prev_screenshot
    \/ toggle_window_visibility
    \/ KeyToggleRecording
    \/ KeyAnalyzeS
    \/ LoopThread({"raise", "text"})
    \/ KeyClearAll
    \/ ClearAllFlag
    \/ ClearAllShots
    \/ ClearAllShotsRest
    \/ ClearAllHistory
    \/ WorkerWindow

SpecTranscript == Init /\ [][NextTranscript]_vars
(***************************************************************************)
(* Properties of the dispatcher.                                           *)
(***************************************************************************)
\* C1, as the specification states it: a Ctrl+Enter issued while a request
\* is outstanding is dropped, its coroutine never makes a remote call.
C1_Original ==
    \A i \in 1..Len(tasks) : tasks[i].overlap => tasks[i].pc # "calling"

\* C1, amended: no Ctrl+Enter is dropped.  Each one, also one issued while a
\* request is outstanding, puts one more coroutine behind those already on
\* the loop, and a coroutine starts only once every earlier one has ended:
\* two overlapping commands can make two remote calls, one after the other.
C1_EveryAnalyzeQueued ==
    /\ [][analyzes' = analyzes + 1 =>
            /\ Len(tasks') = Len(tasks) + 1
            /\ SubSeq(tasks', 1, Len(tasks)) = tasks
            /\ tasks'[Len(tasks')].pc = "queued"
            /\ tasks'[Len(tasks')].overlap = Outstanding]_vars
    /\ [](\A i \in 1..Len(tasks) : tasks[i].pc # "queued" => i = 1)

\* the coroutine of a command issued during a remote call makes a call of its own
C1_Witness ==
    /\ analyzes = MaxAnalyze
    /\ \E i \in 1..Len(tasks) : tasks[i].overlap /\ tasks[i].pc = "calling"

\* C2: in every reachable state at most one remote analysis call is in
\* progress, whatever the number and timing of the Ctrl+Enter commands.
C2_MutualExclusion ==
    Cardinality({i \in 1..Len(tasks) : tasks[i].pc = "calling"}) <= 1

\* a remote call is in progress while another coroutine waits on the loop
C2_Witness ==
    \E i, j \in 1..Len(tasks) : tasks[i].pc = "calling" /\ tasks[j].pc = "queued"

\* the table of the specification: (transcript non-empty, screenshots in the history)
Table(has_voice, n) ==
    IF has_voice
    THEN IF n >= 2 THEN "multi_voice" ELSE IF n = 1 THEN "single_voice" ELSE "voice"
    ELSE IF n >= 2 THEN "multi" ELSE IF n = 1 THEN "single" ELSE "none"

\* C3, as the specification states it: when process_openai runs while no
\* key handler is in progress, the branch it takes is the one the table
\* gives for the transcript and the number of screenshots in the history.
C3_Original ==
    [][(/\ hk = "idle"
        /\ tasks # <<>>
        /\ \A j \in 1..Len(tasks) : tasks[j].pc = "queued"
        /\ tasks' # tasks
        /\ Len(tasks') <= Len(tasks)) =>
            (IF Len(tasks') < Len(tasks) THEN "none" ELSE tasks'[1].mode) =
                Table(Strip(current_transcript) # <<>>, Len(screenshot_collection))]_vars

\* the records of the last min(shots, max_screenshots) successful captures, oldest first
LastAdded ==
    LET n == IF shots < max_screenshots THEN shots ELSE max_screenshots
    IN  [i \in 1..n |-> shots - n + i]

\* C4: once save_screenshot has evicted, the history never holds more than
\* max_screenshots records, and after k successful Ctrl+H commands it holds
\* exactly the last min(k, max_screenshots) captures in insertion order.
C4_LastNRetained ==
    hk # "h_evict" =>
        /\ Len(screenshot_collection) <= max_screenshots
        /\ Images(screenshot_collection) = LastAdded

\* two records have been evicted and the command is complete
C4_Witness ==
    /\ hk = "idle"
    /\ shots > max_screenshots + 1
    /\ Len(screenshot_collection) = max_screenshots
    /\ screenshot_collection[1].img = shots - max_screenshots + 1

\* C5, as the specification states it: with speech available, a Ctrl+V
\* pressed while the audio manager is recording stops it.
C5_Original ==
    [][(toggles' = toggles + 1 /\ use_speech /\ is_recording) => ~is_recording']_vars

\* C6, as the specification states it: when the remote call raised or
\* returned nothing, the sender that handles the value leaves the state "error".
C6_Original ==
    [][\A i \in 1..Len(tasks) :
          (/\ tasks[i].pc = "returned"
           /\ tasks[i].resp \in {"", "err_analyze"}
           /\ Len(tasks') < Len(tasks)) => app_state' = "error"]_vars

\* C7, as the specification states it: the request carries the transcript
\* and the screenshots of the moment Ctrl+Enter was pressed.
C7_Original ==
    \A i \in 1..Len(tasks) :
        tasks[i].pc = "calling" =>
            LET s == tasks[i].snap
                r == tasks[i].req
            IN  /\ s.text # <<>> => r.text = s.text
                /\ s.imgs = <<>> => r.images = <<>>
                /\ Len(s.imgs) = 1 => r.kind # "multi"
                /\ Len(s.imgs) > 1 => r.images = s.imgs

\* a step writes the history, the cursor or the flag
HistoryWritten ==
    <<screenshot_collection, current_screenshot_index, has_recent_screenshot>>' #
    <<screenshot_collection, current_screenshot_index, has_recent_screenshot>>

\* C8, as the specification states it: every write to the context is a step
\* of the main thread's loop.
C8_Original ==
    [][ctxVars' # ctxVars => MainThread \/ Shutdown]_vars

\* C8, amended: the context has no single owner.  The history, the cursor
\* and the flag are written by the handlers on the keyboard hook thread and,
\* when main() leaves its loop, by its cleanup; the transcript is written by
\* the hook thread (Ctrl+G) and by the transcription thread; the asyncio
\* thread and the running main loop never write any of them.
C8_Writers ==
    [][/\ HistoryWritten => HookThread \/ Shutdown
       /\ current_transcript' # current_transcript => HookThread \/ WorkerThread]_vars

\* the worker has written the transcript and the hook thread the history
C8_Witness ==
    /\ current_transcript # <<>>
    /\ has_recent_screenshot
    /\ screenshot_collection # <<>>
    /\ \E i \in 1..Len(tasks) : tasks[i].pc = "returned"

\* C9, as the specification states it: with exactly one screenshot in the
\* history the request carries a stored image, no capture is made.
C9_Original ==
    \A i \in 1..Len(tasks) :
        (/\ tasks[i].pc = "calling"
         /\ tasks[i].count = 1
         /\ tasks[i].mode \in {"single", "single_voice"}) => tasks[i].capture = "none"

\* C10, as the specification states it: after a failed capture no remote
\* call is made.
C10_Original ==
    \A i \in 1..Len(tasks) :
        tasks[i].capture = "failed" => tasks[i].pc \notin {"calling", "returned"}

\* the step is one of the coroutine i
StepOf(i) ==
    \/ Len(tasks') < Len(tasks)
    \/ Len(tasks') = Len(tasks) /\ tasks'[i] # tasks[i]

\* C10, amended: a single-screenshot branch with no cached image makes one
\* capture.  If it succeeds the request carries the captured image.  If it
\* fails and the transcript is empty, no remote call is made, the capture
\* error is published and the state is "error"; if it fails and the
\* transcript is not empty, the request degrades to a text-only remote call
\* with the transcript.  With a cached image no capture is made.
C10_Recapture ==
    /\ [][\A i \in 1..Len(tasks) :
            (/\ tasks[i].pc = "selected"
             /\ tasks[i].mode \in {"single", "single_voice"}
             /\ StepOf(i)) =>
                IF current_screenshot # None
                THEN /\ Len(tasks') = Len(tasks)
                     /\ tasks'[i].capture = "none"
                     /\ tasks'[i].req.images = <<current_screenshot>>
                ELSE \/ /\ Len(tasks') = Len(tasks)
                        /\ tasks'[i].pc = "calling"
                        /\ tasks'[i].capture = "ok"
                        /\ tasks'[i].req.kind = "single"
                        /\ tasks'[i].req.images = <<FreshImage>>
                     \/ /\ tasks[i].mode = "single_voice"
                        /\ Len(tasks') = Len(tasks)
                        /\ tasks'[i].pc = "calling"
                        /\ tasks'[i].capture = "failed"
                        /\ tasks'[i].req =
                               [kind |-> "text", images |-> <<>>, text |-> tasks[i].text]
                     \/ /\ tasks[i].mode = "single"
                        /\ tasks' = Without(i)
                        /\ app_state' = "error"
                        /\ text_queue' = Append(text_queue, Msg("capture_error"))]_vars
    /\ [](\A i \in 1..Len(tasks) : tasks[i].text = <<>> => tasks[i].capture # "failed")

\* a capture of process_openai has failed and the text-only call is in progress
C10_Witness ==
    \E i \in 1..Len(tasks) :
        /\ tasks[i].pc = "calling"
        /\ tasks[i].capture = "failed"
        /\ tasks[i].req.kind = "text"


(***************************************************************************)
(* Properties of the context, the hidden window and the audio worker.      *)
(***************************************************************************)
\* the step is the start of the oldest waiting process_openai coroutine
SelectStep ==
    /\ tasks # <<>>
    /\ tasks[1].pc = "queued"
    /\ tasks' # tasks
    /\ Len(tasks') <= Len(tasks)

\* C11, as the specification states it: a process_openai that starts with
\* an empty transcript and no screenshot in the history makes no remote
\* call, publishes the hint, leaves the state "ready" and does not touch
\* transcript, history, cursor or flag.
C11_Original ==
    [][(/\ SelectStep
        /\ Strip(current_transcript) = <<>>
        /\ screenshot_collection = <<>>) =>
            /\ tasks' = Tail(tasks)
            /\ text_queue' = Append(text_queue, Msg("hint"))
            /\ app_state' = "ready"
            /\ ctxVars' = ctxVars]_vars

\* C12, as the specification states it: while the window is hidden and
\* stays hidden, no step of the key bindings other than the exit changes
\* transcript, history, cursor, flag, recording state, conversation history
\* or dispatcher state, and none starts an analysis.
C12_Original ==
    [][(window_hidden /\ window_hidden' /\ hk' # "exit") =>
            UNCHANGED <<ctxVars, is_recording, recording_active, conversation_history,
                        tasks, app_state>>]_vars

\* Ctrl+G has cleared the transcript and not yet the flag and the screenshots
PartlyCleared ==
    /\ hk = "g_flag"
    /\ current_transcript = <<>>
    /\ has_recent_screenshot
    /\ screenshot_collection # <<>>

\* C13, as the specification states it: ClearAll is atomic for the analysis
\* thread; a process_openai of a command issued with a transcript never
\* starts on a context of which only the transcript has been cleared.
C13_Original ==
    [][(SelectStep /\ tasks[1].snap.text # <<>>) => ~PartlyCleared]_vars

\* C14, as the specification states it: whenever no key handler is in
\* progress, the flag is true exactly when the history holds a screenshot.
C14_Original ==
    hk = "idle" => (has_recent_screenshot <=> screenshot_collection # <<>>)

\* C15: the step that completes a successful Ctrl+H leaves the cursor on
\* the newest record; Ctrl+N moves it by +1 and Ctrl+M by -1 modulo the
\* length of the history, wrapping at both ends; on an empty history
\* neither changes cursor, history or preview image.
C15_Cursor ==
    [][LET n == Len(screenshot_collection)
       IN  /\ (hk = "h_finish" /\ hk' = "idle") =>
                  /\ current_screenshot_index' = Len(screenshot_collection') - 1
                  /\ screenshot_collection'[Len(screenshot_collection')].img = shots
           /\ (next_screenshot /\ n > 0) =>
                  /\ current_screenshot_index' =
                         IF current_screenshot_index = n - 1 THEN 0
                         ELSE current_screenshot_index + 1
                  /\ screenshot_collection' = screenshot_collection
           /\ (prev_screenshot /\ n > 0) =>
                  /\ current_screenshot_index' =
                         IF current_screenshot_index = 0 THEN n - 1
                         ELSE current_screenshot_index - 1
                  /\ screenshot_collection' = screenshot_collection
           /\ ((next_screenshot \/ prev_screenshot) /\ n = 0) =>
                  UNCHANGED <<current_screenshot_index, screenshot_collection,
                              current_screenshot>>]_vars

\* seven captures, the history holds the last five, and the cursor has
\* wrapped from the newest record to the oldest, whose image is previewed
C15_Witness ==
    /\ hk = "idle"
    /\ shots = MaxShots
    /\ Len(screenshot_collection) = max_screenshots
    /\ current_screenshot_index = 0
    /\ current_screenshot = screenshot_collection[1].img

RECURSIVE Chunks(_)
\* the chunks of the windows handed to transcribe, in the order handed over
Chunks(bs) == IF bs = <<>> THEN <<>> ELSE Head(bs).chunks \o Chunks(Tail(bs))

\* C16: the chunks handed to transcribe, window after window, followed by
\* the chunks still in the buffer, are the chunks read, each once and in
\* the order read; also after a stop and after a window whose transcription
\* raised.
C16_NoLossNoDup ==
    Chunks(batches) \o audio_buffer = [i \in 1..reads |-> i]

\* a window whose transcription raised was handed over whole, a later
\* window follows it, and a chunk read since waits in the buffer
C16_Witness ==
    /\ Len(batches) = 2
    /\ batches[1].raw = <<"raise">>
    /\ audio_buffer # <<>>

\* the frames of n chunks reach buffer_frames
AtThreshold(n) == n * chunk_size >= sampling_rate * buffer_duration

\* C17: between the iterations of the worker the buffer is below the
\* threshold; a window is handed over only when it has reached the
\* threshold, with the chunk that reached it as its last, and the buffer is
\* empty right after.
C17_Accumulator ==
    /\ [](~AtThreshold(Len(audio_buffer)))
    /\ [][batches' # batches =>
            LET w == batches'[Len(batches')].chunks
            IN  /\ Len(batches') = Len(batches) + 1
                /\ AtThreshold(Len(w))
                /\ ~AtThreshold(Len(w) - 1)
                /\ w[Len(w)] = reads'
                /\ audio_buffer' = <<>>]_vars

\* a second window has been handed over and the buffer fills again
C17_Witness ==
    /\ Len(batches) = 2
    /\ Len(audio_buffer) = 1
    /\ AtThreshold(Len(batches[2].chunks))

\* C18: when a window has been transcribed, the transcript becomes exactly
\* the joined and trimmed text, and the callback has set the state
\* "listening", if that text is longer than 2 characters; otherwise, and
\* when the transcription raised, transcript and state are unchanged.
C18_Acceptance ==
    [][batches' # batches =>
          LET raw == batches'[Len(batches')].raw
              text == Strip(raw)
          IN  IF raw # <<"raise">> /\ Len(text) > 2
              THEN /\ current_transcript' = text
                   /\ app_state' = "listening"
              ELSE /\ current_transcript' = current_transcript
                   /\ app_state' = app_state]_vars

\* a text of two characters was discarded after a longer one had been accepted
C18_Witness ==
    /\ Len(batches) = 2
    /\ Len(Strip(batches[1].raw)) = 3
    /\ Len(Strip(batches[2].raw)) = 2
    /\ current_transcript = Strip(batches[1].raw)

\* some window handed over so far raised in its transcription
SomeWindowFailed == \E k \in 1..Len(batches) : batches[k].raw = <<"raise">>

\* C19: a worker ends only when recording is no longer active, never
\* because of a failed read or a failed transcription; a window whose
\* transcription raises leaves transcript, worker and recording as they
\* were; and after a failed window an acceptable text still replaces the
\* transcript.
C19_WorkerSurvives ==
    [][/\ workers' < workers => ~is_recording
       /\ batches' # batches =>
              LET raw == batches'[Len(batches')].raw
              IN  /\ workers' = workers
                  /\ is_recording' = is_recording
                  /\ raw = <<"raise">> => current_transcript' = current_transcript
                  /\ (SomeWindowFailed /\ raw # <<"raise">> /\ Len(Strip(raw)) > 2) =>
                         current_transcript' = Strip(raw)]_vars

\* the first window raised, the worker went on and the second window gave
\* the transcript
C19_Witness ==
    /\ Len(batches) = 2
    /\ batches[1].raw = <<"raise">>
    /\ batches[2].raw # <<"raise">>
    /\ current_transcript = Strip(batches[2].raw)
    /\ current_transcript # <<>>
    /\ workers > 0
    /\ is_recording

\* C20: in every application state, with or without a remote call
\* outstanding, a key event that reaches the handlers is processed as soon
\* as the hook thread is free: Ctrl+H can store a capture, Ctrl+X empties
\* the history, Ctrl+N and Ctrl+M move the cursor, Ctrl+V leaves the audio
\* manager recording, Ctrl+Enter schedules one more coroutine; and some
\* scheduled coroutine can always take its next step.
C20_NeverGated ==
    /\ (hk = "idle" /\ Forwarded) =>
          /\ ENABLED (SaveShotAppend /\ shots' = shots + 1)
          /\ ENABLED (KeyAnalyze /\ Len(tasks') = Len(tasks) + 1)
          /\ ENABLED (toggle_recording /\ is_recording')
          /\ ENABLED (KeyClearShots /\ screenshot_collection' = <<>>)
          /\ screenshot_collection # <<>> =>
                 /\ ENABLED (next_screenshot /\ current_screenshot_index' =
                        (current_screenshot_index + 1) % Len(screenshot_collection))
                 /\ ENABLED (prev_screenshot /\ current_screenshot_index' =
                        (current_screenshot_index + Len(screenshot_collection) - 1)
                            % Len(screenshot_collection))
    /\ tasks # <<>> => ENABLED LoopThread({"empty"})

\* the state is "error" after an empty answer and a later Ctrl+Enter has
\* been dispatched: its remote call is in progress
C20_Witness ==
    /\ analyzes = MaxAnalyze
    /\ Len(tasks) = 1
    /\ tasks[1].pc = "calling"
    /\ ~tasks[1].overlap
    /\ \E k \in 1..Len(text_queue) : text_queue[k] = Msg("No response from OpenAI")

(***************************************************************************)
(* C21  No automatic retry.  A remote call is started only by a coroutine  *)
(* that has built no request yet, and a coroutine that is calling or has   *)
(* its answer never goes back to build another request: whatever the       *)
(* answer, it publishes one message and ends.                              *)
(***************************************************************************)
CallStarts ==
    \E i \in 1..Len(tasks) :
        /\ i <= Len(tasks')
        /\ tasks[i].pc # "calling"
        /\ tasks'[i].pc = "calling"

C21_NoRetry ==
    [][/\ CallStarts =>
            \E i \in 1..Len(tasks) :
                /\ tasks[i].pc = "selected"
                /\ tasks[i].req = NoReq
                /\ tasks'[i].pc = "calling"
       /\ \A i \in 1..Len(tasks) :
            tasks[i].pc \in {"calling", "returned"} =>
                \/ Len(tasks') < Len(tasks)
                \/ /\ tasks'[i].pc \in {"calling", "returned"}
                   /\ tasks'[i].req = tasks[i].req
                   /\ tasks[i].pc = "returned" => tasks'[i].pc = "returned"]_vars

\* a failed call has been handled: the coroutine is gone, nothing is pending
C21_Witness ==
    /\ tasks = <<>>
    /\ analyzes = 1
    /\ app_state = "error"
    /\ text_queue # <<>>
    /\ text_queue[Len(text_queue)] = Msg("No response from OpenAI")

(***************************************************************************)
(* C22  On a successful (non-empty) remote result the sender publishes the *)
(* result on text_queue and the application state becomes "ready"; the     *)
(* message is enqueued after the "Processing..." message of the same       *)
(* command, which is enqueued in the step that schedules the coroutine.    *)
(***************************************************************************)
Succeeded(i) == tasks[i].pc = "returned" /\ tasks[i].resp \in {"text", "code"}

\* the message carries the answer r: the formatted history ends with it
Carries(m, r) == m.kind = "history" /\ m.body # <<>> /\ m.body[Len(m.body)][2] = r

C22_Original ==
    [][/\ Len(tasks') > Len(tasks) =>
            text_queue' = Append(text_queue, Msg("Processing..."))
       /\ \A i \in 1..Len(tasks) :
            Succeeded(i) /\ tasks' = Without(i) =>
                /\ Len(text_queue') = Len(text_queue) + 1
                /\ Carries(text_queue'[Len(text_queue')], tasks[i].resp)
                /\ app_state' = "ready"]_vars

(***************************************************************************)
(* C23  If starting the recording fails (stream.start_stream() raises),    *)
(* recording stays inactive: after the Ctrl+V the audio manager is not     *)
(* recording, no transcription thread has been started and the caller's    *)
(* recording flag is false.                                                *)
(***************************************************************************)
C23_FailedStart ==
    [][(/\ toggles' = toggles + 1
        /\ use_speech
        /\ ~is_recording
        /\ ~recording_active
        /\ ToggleRecording(FALSE))
       => (/\ ~is_recording'
           /\ workers' = workers
           /\ ~recording_active')]_vars

\* every start so far has failed
C23_Witness ==
    /\ hk = "idle"
    /\ use_speech
    /\ toggles = 2
    /\ ~is_recording
    /\ workers = 0
    /\ ~recording_active

(***************************************************************************)
(* C24  start_recording while recording starts no second thread and        *)
(* changes nothing; stop_recording while not recording changes nothing;    *)
(* stop_recording twice equals stop_recording once.                        *)
(***************************************************************************)
C24_Idempotent ==
    /\ is_recording => \A started \in BOOLEAN : start_recording(AudioMgr, started) = AudioMgr
    /\ ~is_recording => stop_recording(AudioMgr) = AudioMgr
    /\ stop_recording(stop_recording(AudioMgr)) = stop_recording(AudioMgr)

\* Ctrl+V has called start_recording while the manager was recording
C24_Witness ==
    /\ is_recording
    /\ toggles >= 2
    /\ workers = 1
    /\ reads > 0

C30_Original == (hk = "idle" /\ toggles > 0) => (recording_active = is_recording)

(***************************************************************************)
(* C26  When speech is unavailable, Ctrl+V never starts the recording, the *)
(* transcript is empty in every reachable state, and every Ctrl+Enter      *)
(* selects the screen-only mode, the multi-screenshot mode without text,   *)
(* or no request.                                                          *)
(***************************************************************************)
C26_Silent ==
    ~use_speech =>
        /\ ~is_recording
        /\ ~recording_active
        /\ workers = 0
        /\ current_transcript = <<>>
        /\ \A i \in 1..Len(tasks) :
              /\ tasks[i].mode \in {"", "single", "multi"}
              /\ tasks[i].text = <<>>
              /\ tasks[i].req.kind \in {"none", "single", "multi"}
              /\ tasks[i].req.text = <<>>

\* without speech, after a Ctrl+V, a request with two screenshots and no text
C26_Witness ==
    /\ ~use_speech
    /\ toggles > 0
    /\ tasks # <<>>
    /\ tasks[1].pc = "calling"
    /\ tasks[1].mode = "multi"

(***************************************************************************)
(* C27  Clear screenshots (Ctrl+X).  As claimed: after a clear of a        *)
(* non-empty history the history is empty, the cursor is 0, the            *)
(* has-screenshot flag is false and no backing file of a cleared record    *)
(* remains; the transcript is unchanged.                                   *)
(***************************************************************************)
ClearBegins == hk = "idle" /\ hk' = "x_rest"

ClearEnds == hk = "x_rest" /\ hk' = "idle"

C27_Original ==
    [][/\ ClearBegins =>
            /\ screenshot_collection' = <<>>
            /\ Files(screenshot_collection) \cap disk' = {}
            /\ current_transcript' = current_transcript
       /\ ClearEnds =>
            /\ screenshot_collection' = <<>>
            /\ current_screenshot_index' = 0
            /\ ~has_recent_screenshot'
            /\ current_transcript' = current_transcript]_vars

\* C27 as the code has it: a backing file of a cleared record remains only
\* if its deletion failed; the clear goes on all the same
C27_Clear ==
    [][/\ ClearBegins =>
            /\ screenshot_collection' = <<>>
            /\ Files(screenshot_collection) \cap disk' \subseteq undeletable
            /\ current_transcript' = current_transcript
       /\ ClearEnds =>
            /\ screenshot_collection' = <<>>
            /\ current_screenshot_index' = 0
            /\ ~has_recent_screenshot'
            /\ current_transcript' = current_transcript]_vars

\* three records cleared with a transcript present: the files are gone but
\* the one that could not be deleted
C27_Witness ==
    /\ hk = "idle"
    /\ shots = 3
    /\ screenshot_collection = <<>>
    /\ current_screenshot_index = 0
    /\ ~has_recent_screenshot
    /\ disk = {2}
    /\ undeletable = {2}
    /\ current_transcript # <<>>

(***************************************************************************)
(* C28  If the screen capture fails during a Ctrl+H, the context is        *)
(* unchanged: the history, the cursor, the has-screenshot flag, the        *)
(* tracked file list and the transcript are exactly as before (and so are  *)
(* the files and the preview).                                             *)
(***************************************************************************)
\* a Ctrl+H that stored no capture
FailedCapture == attempts' = attempts + 1 /\ shots' = shots

C28_FailedCapture ==
    [][FailedCapture =>
          /\ UNCHANGED <<ctxVars, prevVars, screenshot_files, disk>>
          /\ hk' = "idle"]_vars

\* a capture has failed with two records, a cursor, the flag and a
\* transcript in place
C28_Witness ==
    /\ hk = "idle"
    /\ attempts > shots
    /\ Len(screenshot_collection) = 2
    /\ Len(screenshot_files) = 2
    /\ current_screenshot_index = 1
    /\ has_recent_screenshot
    /\ current_transcript # <<>>

(***************************************************************************)
(* C29  When an add makes the history exceed capacity, exactly one record, *)
(* the oldest, is evicted, its backing file is deleted and its name is     *)
(* removed from the tracked file list; no other record's backing file is   *)
(* deleted by the eviction.                                                *)
(***************************************************************************)
Evicts == hk = "h_evict" /\ Len(screenshot_collection) > max_screenshots

C29_Original ==
    [][Evicts =>
          /\ screenshot_collection' = Tail(screenshot_collection)
          /\ Head(screenshot_collection).file \notin disk'
          /\ \A i \in 1..Len(screenshot_files') :
                screenshot_files'[i] # Head(screenshot_collection).file
          /\ \A i \in 1..Len(screenshot_collection') :
                screenshot_collection'[i].file \in disk =>
                    screenshot_collection'[i].file \in disk']_vars

(***************************************************************************)
(* C31  At most one transcription worker thread is running at any time,    *)
(* for every sequence of start_recording / stop_recording calls.           *)
(***************************************************************************)
C31_Original == workers <= 1

(***************************************************************************)
(* C33  Once recording has been stopped the worker no longer changes the   *)
(* current transcript: while is_recording is false the transcript is not   *)
(* set to a new text, so a transcript cleared then stays empty.            *)
(***************************************************************************)
C33_Original ==
    [][~is_recording =>
          \/ current_transcript' = current_transcript
          \/ current_transcript' = <<>>]_vars

(***************************************************************************)
(* C32  Every record retained in the screenshot history has its backing    *)
(* file present, also when two captures got the same file name.            *)
(***************************************************************************)
C32_Original ==
    \A i \in 1..Len(screenshot_collection) : screenshot_collection[i].file \in disk

(***************************************************************************)
(* C34  Every Ctrl+Enter is eventually answered: each coroutine ends, and  *)
(* it ends by putting a terminal message (never "Processing...") on        *)
(* text_queue; the state does not remain "processing"; and once the queue  *)
(* is drained with no coroutine left, the overlay shows a terminal message *)
(* and not "Processing...".                                                *)
(***************************************************************************)
Terminal(m) == m.kind # "Processing..."

C34_Answered ==
    /\ (tasks # <<>>) ~> (tasks = <<>>)
    /\ (app_state = "processing") ~> (app_state # "processing")
    /\ [][Len(tasks') < Len(tasks) =>
            /\ Len(text_queue') = Len(text_queue) + 1
            /\ Terminal(text_queue'[Len(text_queue')])]_vars
    /\ [](tasks = <<>> /\ text_queue = <<>> /\ analyzes > 0 => Terminal(overlay_text))

\* two Ctrl+Enter answered and drained: the overlay shows the hint or the
\* answer of the second one
C34_Witness ==
    /\ analyzes = 2
    /\ tasks = <<>>
    /\ text_queue = <<>>
    /\ overlay_text.kind \in {"hint", "history", "No response from OpenAI"}

(***************************************************************************)
(* C35  From the moment a request sets the application state to            *)
(* "processing" until it publishes its result, the state stays             *)
(* "processing".                                                           *)
(***************************************************************************)
C35_Original ==
    \A i \in 1..Len(tasks) :
        tasks[i].pc \in {"calling", "returned"} => app_state = "processing"

(***************************************************************************)
(* C36  The cursor is a valid index: whenever no key handler is in         *)
(* progress, 0 <= cursor < length if the history is non-empty, and the     *)
(* cursor is 0 if it is empty.                                             *)
(***************************************************************************)
C36_CursorValid ==
    hk = "idle" =>
        IF screenshot_collection = <<>>
        THEN current_screenshot_index = 0
        ELSE /\ 0 <= current_screenshot_index
             /\ current_screenshot_index < Len(screenshot_collection)

\* a full history after an eviction, browsed back to its first record
C36_Witness ==
    /\ hk = "idle"
    /\ shots > max_screenshots
    /\ Len(screenshot_collection) = max_screenshots
    /\ current_screenshot_index = 0

\* a transcription the worker accepts: stripped, longer than two characters
Accepted(text) == \E raw \in RawTexts : text = Strip(raw) /\ Len(text) > 2

\* C37: the transcript changes only in a step of the transcription thread,
\* to the text it accepted, or in the first step of Ctrl+G, to the empty
\* transcript; every other command, a step of an analysis included, leaves
\* it as it was.
C37_TranscriptFrame ==
    [][current_transcript' # current_transcript =>
           \/ WorkerThread /\ Accepted(current_transcript')
           \/ KeyClearAll /\ current_transcript' = <<>>]_vars

\* two analyses have been answered and the transcript they sent is still there
C37_Witness ==
    /\ analyzes = MaxAnalyze
    /\ tasks = <<>>
    /\ current_transcript # <<>>
    /\ conversation_history # <<>>
    /\ window_hidden
    /\ shots > 0

\* the remote call of task i returns in this step
Returns(i) ==
    /\ tasks[i].pc = "calling"
    /\ Len(tasks') = Len(tasks)
    /\ tasks'[i].pc = "returned"

\* what the senders get when the call raised, answered nothing, or broke
\* off while the stream was read
FailedAnswers == {"", "err_analyze", "err_stream", "code_err_stream"}

\* C38, as the specification states it: a call that succeeds with a
\* non-empty answer appends exactly one entry to the conversation history, a
\* call that fails or answers nothing, a failure while the stream is read
\* included, leaves it unchanged; Ctrl+G empties it; what is published
\* after a success is the formatting of the whole history.
C38_Original ==
    [][/\ \A i \in 1..Len(tasks) :
            Returns(i) =>
                IF tasks'[i].resp \in FailedAnswers
                THEN conversation_history' = conversation_history
                ELSE /\ Len(conversation_history') = Len(conversation_history) + 1
                     /\ conversation_history'[Len(conversation_history')][2] = tasks'[i].resp
       /\ (hk = "g_hist" /\ hk' = "idle") => conversation_history' = <<>>
       /\ \A i \in 1..Len(tasks) :
            (/\ tasks[i].pc = "returned"
             /\ tasks[i].resp \notin FailedAnswers
             /\ Len(tasks') < Len(tasks)) =>
                text_queue'[Len(text_queue')] = get_conversation_history(conversation_history)]_vars

\* C39, as the specification states it: the extracted code is replaced only
\* when a sender handles a successful result with a fenced code block, and
\* then holds its blocks; a result without a block, a failed or empty call
\* and Ctrl+G leave it as it was.
C39_Original ==
    [][current_code' # current_code =>
           \E i \in 1..Len(tasks) :
               /\ Succeeded(i)
               /\ Len(tasks') < Len(tasks)
               /\ tasks[i].resp = "code"
               /\ current_code' = extract_code_from_response(tasks[i].resp)]_vars
====
